---- MODULE Spec2Model ----
(***************************************************************************)
(* A model of preprocess.py: the CT/PET preprocessing pipeline.            *)
(*                                                                         *)
(*   load_scan          the slice-thickness fallback chain                  *)
(*   get_pixels_hu      the per-slice linear rescale on an int16 grid      *)
(*   resample,                                                             *)
(*   resample_mask      the shape / spacing arithmetic and the zoom        *)
(*   segment_lung_mask  threshold, closing, labelling, fill, filter,       *)
(*                      dilation                                           *)
(*   load_image         the four grids produced per patient                *)
(*                                                                         *)
(* Each function has a specification of its own (SpecScan, SpecHU,         *)
(* SpecResample, SpecLung, SpecImage) over the same variables; the         *)
(* variables of the functions a specification does not run stay Idle.      *)
(*                                                                         *)
(* Conventions.  Python sequences are TLA+ sequences, so index k of the    *)
(* source is index k+1 here.  An attribute that may be missing, and        *)
(* Python's None, is a sequence of length 0 (absent) or 1 (present).       *)
(* A real number is a fraction <<numerator, denominator>>.                 *)
(***************************************************************************)
EXTENDS Integers, Sequences, FiniteSets, TLC

VARIABLES
    \* load_scan
    ls_pc, ct_slices, pet_slices, segmentation,
    ct_slice_thickness, pet_slice_thickness,
    \* get_pixels_hu
    hu_pc, slices, hu_image, slice_number, cast_mode,
    \* resample, resample_mask
    rs_pc, rs_image, rs_spacing, rs_target, rs_new_shape, rs_new_spacing,
    rs_out, rs_range,
    \* segment_lung_mask
    lung_pc, lung_image, fill_lung_structures, binary_image, labels,
    background_label, slice_i, axial_slice, labeling, l_max, dilated,
    \* history: the voxels the fill pass has found outside the largest
    \* component of their slice
    reassigned,
    \* load_image
    img_pc, patient, ct_data, pet_data, tumor_mask, ct_pixel, pet_pixel,
    tumor_resampled_mask, ct_resampled_image, pet_resampled_image,
    img_spacing, lung_mask

scanVars == <<ls_pc, ct_slices, pet_slices, segmentation,
              ct_slice_thickness, pet_slice_thickness>>

huVars == <<hu_pc, slices, hu_image, slice_number, cast_mode>>

rsVars == <<rs_pc, rs_image, rs_spacing, rs_target, rs_new_shape,
            rs_new_spacing, rs_out, rs_range>>

lungVars == <<lung_pc, lung_image, fill_lung_structures, binary_image, labels,
              background_label, slice_i, axial_slice, labeling, l_max,
              dilated, reassigned>>

imgVars == <<img_pc, patient, ct_data, pet_data, tumor_mask, ct_pixel,
             pet_pixel, tumor_resampled_mask, ct_resampled_image,
             pet_resampled_image, img_spacing, lung_mask>>

vars == <<scanVars, huVars, rsVars, lungVars, imgVars>>

Idle == "idle"

\* None, or an attribute a dataset does not carry
None == <<>>
Some(v) == <<v>>
IsSome(o) == Len(o) = 1
Val(o) == o[1]

Abs(x) == IF x < 0 THEN -x ELSE x

\* a function on 1..n as an explicit tuple (evaluated once, not per access)
AsTuple(f) == f \o <<>>

\* a fraction <<n, d>>, d > 0
Num(q) == q[1]
Den(q) == q[2]

\* the integer part of n / d, rounded toward zero (a C cast of a float)
TruncDiv(n, d) == IF n >= 0 THEN n \div d ELSE -((-n) \div d)

\* F applied to every voxel of a volume
MapGrid3(vol, F(_)) ==
    AsTuple([z \in 1..Len(vol) |->
        AsTuple([y \in 1..Len(vol[z]) |->
            AsTuple([x \in 1..Len(vol[z][y]) |-> F(vol[z][y][x])])])])

\* F applied to every line of a volume along its last, middle, first axis;
\* F may change the length of the line
MapLines3(vol, F(_)) ==
    AsTuple([z \in 1..Len(vol) |->
        AsTuple([y \in 1..Len(vol[z]) |-> F(vol[z][y])])])

MapLines2(vol, F(_)) ==
    AsTuple([z \in 1..Len(vol) |->
        LET cols == AsTuple([x \in 1..Len(vol[z][1]) |->
                        F(AsTuple([y \in 1..Len(vol[z]) |-> vol[z][y][x]]))])
        IN  AsTuple([y \in 1..Len(cols[1]) |->
                AsTuple([x \in 1..Len(cols) |-> cols[x][y]])])])

MapLines1(vol, F(_)) ==
    LET lines == AsTuple([y \in 1..Len(vol[1]) |->
                    AsTuple([x \in 1..Len(vol[1][1]) |->
                        F(AsTuple([z \in 1..Len(vol) |-> vol[z][y][x]]))])])
    IN  AsTuple([z \in 1..Len(lines[1][1]) |->
            AsTuple([y \in 1..Len(lines) |->
                AsTuple([x \in 1..Len(lines[y]) |-> lines[y][x][z]])])])

Axes == 1..3

\* the shape of a volume; a volume without voxels keeps its dimensions up
\* to the first that is 0
Shape(vol) ==
    IF Len(vol) = 0 THEN <<0, 0, 0>>
    ELSE IF Len(vol[1]) = 0 THEN <<Len(vol), 0, 0>>
    ELSE <<Len(vol), Len(vol[1]), Len(vol[1][1])>>

At(vol, p) == vol[p[1]][p[2]][p[3]]

Voxels(shape) == (1..shape[1]) \X (1..shape[2]) \X (1..shape[3])

InGrid(p, shape) == \A a \in Axes : p[a] >= 1 /\ p[a] <= shape[a]

\* the volume of a shape whose voxel at p is F(p)
Build3(shape, F(_)) ==
    AsTuple([z \in 1..shape[1] |->
        AsTuple([y \in 1..shape[2] |->
            AsTuple([x \in 1..shape[3] |-> F(<<z, y, x>>)])])])

\* the values of a volume
Values3(vol) == {At(vol, p) : p \in Voxels(Shape(vol))}

IdleScan ==
    /\ ls_pc = Idle /\ ct_slices = <<>> /\ pet_slices = <<>>
    /\ segmentation = FALSE
    /\ ct_slice_thickness = None /\ pet_slice_thickness = None

IdleHU ==
    /\ hu_pc = Idle /\ slices = <<>> /\ hu_image = <<>>
    /\ slice_number = 0 /\ cast_mode = Idle

IdleRS ==
    /\ rs_pc = Idle /\ rs_image = <<>> /\ rs_spacing = <<>> /\ rs_target = <<>>
    /\ rs_new_shape = <<>> /\ rs_new_spacing = <<>> /\ rs_out = <<>>
    /\ rs_range = <<>>

IdleLung ==
    /\ lung_pc = Idle /\ lung_image = <<>> /\ fill_lung_structures = FALSE
    /\ binary_image = <<>> /\ labels = <<>> /\ background_label = 0
    /\ slice_i = 0 /\ axial_slice = <<>> /\ labeling = <<>> /\ l_max = None
    /\ dilated = <<>> /\ reassigned = {}

IdleImage ==
    /\ img_pc = Idle /\ patient = <<>> /\ ct_data = <<>> /\ pet_data = <<>>
    /\ tumor_mask = <<>> /\ ct_pixel = <<>> /\ pet_pixel = <<>>
    /\ tumor_resampled_mask = <<>> /\ ct_resampled_image = <<>>
    /\ pet_resampled_image = <<>> /\ img_spacing = <<>> /\ lung_mask = <<>>

(***************************************************************************)
(* load_scan                                                               *)
(***************************************************************************)

\* the largest number of slices of a series
MaxSlices == 2
\* slice positions and slice locations are 0 .. MaxCoord
MaxCoord == 1

\* One dataset of a series: ImagePositionPatient[2], SliceLocation (may be
\* missing), element (0018,0088) (may be missing), SliceThickness (set by
\* load_scan).
Dataset ==
    [ImagePositionPatient : 0..MaxCoord,
     SliceLocation : {None} \cup {Some(v) : v \in 0..MaxCoord},
     Tag0018_0088 : {None, Some(MaxCoord + 1)},
     SliceThickness : {None}]

Series == UNION {[1..n -> Dataset] : n \in 0..MaxSlices}

\* list.sort(key=lambda x: float(x.ImagePositionPatient[2])): a stable
\* insertion of each element after the elements whose key is not larger
RECURSIVE InsertSorted(_, _)
InsertSorted(s, x) ==
    IF s = <<>> THEN <<x>>
    ELSE IF Head(s).ImagePositionPatient <= x.ImagePositionPatient
         THEN <<Head(s)>> \o InsertSorted(Tail(s), x)
         ELSE <<x>> \o s

RECURSIVE SortByPosition(_)
SortByPosition(s) ==
    IF s = <<>> THEN <<>>
    ELSE InsertSorted(SortByPosition(SubSeq(s, 1, Len(s) - 1)), s[Len(s)])

\* slices[0].ImagePositionPatient[2] - slices[1].ImagePositionPatient[2]
\* raises IndexError on a series of fewer than two slices
PositionDeltaOk(s) == Len(s) >= 2
PositionDelta(s) == Abs(s[1].ImagePositionPatient - s[2].ImagePositionPatient)

\* slices[0].SliceLocation - slices[1].SliceLocation raises IndexError on a
\* series of fewer than two slices, AttributeError on a missing attribute
LocationDeltaOk(s) ==
    Len(s) >= 2 /\ IsSome(s[1].SliceLocation) /\ IsSome(s[2].SliceLocation)
LocationDelta(s) == Abs(Val(s[1].SliceLocation) - Val(s[2].SliceLocation))

\* slices[0][0x18, 0x88].value raises IndexError on an empty series,
\* KeyError on a dataset without the element
TagOk(s) == Len(s) >= 1 /\ IsSome(s[1].Tag0018_0088)
TagValue(s) == Val(s[1].Tag0018_0088)

SetThickness(s, t) == [k \in 1..Len(s) |-> [s[k] EXCEPT !.SliceThickness = t]]

InitScan ==
    /\ IdleHU /\ IdleRS /\ IdleLung /\ IdleImage
    /\ ls_pc = "read"
    /\ ct_slices \in Series
    /\ pet_slices \in Series
    /\ segmentation \in BOOLEAN
    /\ ct_slice_thickness = None
    /\ pet_slice_thickness = None

\* lines 22-34: the series are read and sorted by position
LoadScanSort ==
    /\ ls_pc = "read"
    /\ ct_slices' = SortByPosition(ct_slices)
    /\ pet_slices' = SortByPosition(pet_slices)
    /\ ls_pc' = "position_ct"
    /\ UNCHANGED <<segmentation, ct_slice_thickness, pet_slice_thickness>>
    /\ UNCHANGED <<huVars, rsVars, lungVars, imgVars>>

\* line 39, inside the inner try
LoadScanPositionCt ==
    /\ ls_pc = "position_ct"
    /\ IF PositionDeltaOk(ct_slices)
       THEN /\ ct_slice_thickness' = Some(PositionDelta(ct_slices))
            /\ ls_pc' = "position_pet"
       ELSE /\ ls_pc' = "location_ct"
            /\ UNCHANGED ct_slice_thickness
    /\ UNCHANGED <<ct_slices, pet_slices, segmentation, pet_slice_thickness>>
    /\ UNCHANGED <<huVars, rsVars, lungVars, imgVars>>

\* line 40, inside the inner try
LoadScanPositionPet ==
    /\ ls_pc = "position_pet"
    /\ IF PositionDeltaOk(pet_slices)
       THEN /\ pet_slice_thickness' = Some(PositionDelta(pet_slices))
            /\ ls_pc' = "assign"
       ELSE /\ ls_pc' = "location_ct"
            /\ UNCHANGED pet_slice_thickness
    /\ UNCHANGED <<ct_slices, pet_slices, segmentation, ct_slice_thickness>>
    /\ UNCHANGED <<huVars, rsVars, lungVars, imgVars>>

\* line 42, the inner except: the CT thickness from the PET slice locations
LoadScanLocationCt ==
    /\ ls_pc = "location_ct"
    /\ IF LocationDeltaOk(pet_slices)
       THEN /\ ct_slice_thickness' = Some(LocationDelta(pet_slices))
            /\ ls_pc' = "location_pet"
       ELSE /\ ls_pc' = "tag_ct"
            /\ UNCHANGED ct_slice_thickness
    /\ UNCHANGED <<ct_slices, pet_slices, segmentation, pet_slice_thickness>>
    /\ UNCHANGED <<huVars, rsVars, lungVars, imgVars>>

\* line 43
LoadScanLocationPet ==
    /\ ls_pc = "location_pet"
    /\ IF LocationDeltaOk(pet_slices)
       THEN /\ pet_slice_thickness' = Some(LocationDelta(pet_slices))
            /\ ls_pc' = "assign"
       ELSE /\ ls_pc' = "tag_ct"
            /\ UNCHANGED pet_slice_thickness
    /\ UNCHANGED <<ct_slices, pet_slices, segmentation, ct_slice_thickness>>
    /\ UNCHANGED <<huVars, rsVars, lungVars, imgVars>>

\* line 45, the outer except; an exception here leaves load_scan
LoadScanTagCt ==
    /\ ls_pc = "tag_ct"
    /\ IF TagOk(ct_slices)
       THEN /\ ct_slice_thickness' = Some(TagValue(ct_slices))
            /\ ls_pc' = "tag_pet"
       ELSE /\ ls_pc' = "error"
            /\ UNCHANGED ct_slice_thickness
    /\ UNCHANGED <<ct_slices, pet_slices, segmentation, pet_slice_thickness>>
    /\ UNCHANGED <<huVars, rsVars, lungVars, imgVars>>

\* line 46
LoadScanTagPet ==
    /\ ls_pc = "tag_pet"
    /\ IF TagOk(pet_slices)
       THEN /\ pet_slice_thickness' = Some(TagValue(pet_slices))
            /\ ls_pc' = "assign"
       ELSE /\ ls_pc' = "error"
            /\ UNCHANGED pet_slice_thickness
    /\ UNCHANGED <<ct_slices, pet_slices, segmentation, ct_slice_thickness>>
    /\ UNCHANGED <<huVars, rsVars, lungVars, imgVars>>

\* lines 49-55: every slice remembers the thickness; the return reads
\* segmentation, which is unbound when no tumor mask file was found
LoadScanAssign ==
    /\ ls_pc = "assign"
    /\ ct_slices' = SetThickness(ct_slices, ct_slice_thickness)
    /\ pet_slices' = SetThickness(pet_slices, pet_slice_thickness)
    /\ ls_pc' = IF segmentation THEN "done" ELSE "error"
    /\ UNCHANGED <<segmentation, ct_slice_thickness, pet_slice_thickness>>
    /\ UNCHANGED <<huVars, rsVars, lungVars, imgVars>>

NextScan ==
    \/ LoadScanSort
    \/ LoadScanPositionCt
    \/ LoadScanPositionPet
    \/ LoadScanLocationCt
    \/ LoadScanLocationPet
    \/ LoadScanTagCt
    \/ LoadScanTagPet
    \/ LoadScanAssign

SpecScan == InitScan /\ [][NextScan]_vars

(***************************************************************************)
(* C8: the thickness of each series comes from the first of position       *)
(* delta, slice-location delta, metadata field that succeeds on that       *)
(* series; load_scan ends in an error exactly when a series has none.      *)
(***************************************************************************)
ChainOk(s) == PositionDeltaOk(s) \/ LocationDeltaOk(s) \/ TagOk(s)
ChainThickness(s) ==
    IF PositionDeltaOk(s) THEN PositionDelta(s)
    ELSE IF LocationDeltaOk(s) THEN LocationDelta(s)
    ELSE TagValue(s)

C8_OrderedFallbackChain ==
    /\ ls_pc = "assign" =>
          /\ ChainOk(ct_slices) /\ ct_slice_thickness = Some(ChainThickness(ct_slices))
          /\ ChainOk(pet_slices) /\ pet_slice_thickness = Some(ChainThickness(pet_slices))
    /\ (ls_pc = "error" /\ segmentation) =>
          ~ (ChainOk(ct_slices) /\ ChainOk(pet_slices))

(***************************************************************************)
(* get_pixels_hu                                                           *)
(*                                                                         *)
(* A slice is [pixel_array, RescaleSlope, RescaleIntercept]: pixel_array   *)
(* a sequence of rows of stored integers, slope and intercept fractions.   *)
(* The slopes and intercepts drawn are dyadic, so that the float64         *)
(* products of the source are exact and equal the fractions here.          *)
(***************************************************************************)

Int16Min == -32768
Int16Max == 32767
TwoTo16 == 65536

InInt16(v) == Int16Min <= v /\ v <= Int16Max

\* an integer cast to int16: the low 16 bits, two's complement
Wrap16(v) == ((v - Int16Min) % TwoTo16) + Int16Min

Sat16(v) == IF v < Int16Min THEN Int16Min ELSE IF v > Int16Max THEN Int16Max ELSE v

\* What a float64 -> int16 cast of an out-of-range value gives is not
\* defined by C: a scalar conversion through int32 keeps the low 16 bits, a
\* saturating vector pack clamps.  The build decides which.
CastModes == {"wrap", "saturate"}

\* float64 n/d cast to int16: truncation toward zero
CastFloatToInt16(n, d, mode) ==
    LET t == TruncDiv(n, d)
    IN  IF InInt16(t) THEN t
        ELSE IF mode = "wrap" THEN Wrap16(t) ELSE Sat16(t)

\* lines 82-86 on one voxel v of the int16 grid
\*   image[k] = slope * image[k].astype(np.float64)   (stored back as int16)
\*   image[k] = image[k].astype(np.int16)
\*   image[k] += np.int16(intercept)                   (int16 arithmetic)
RescaleVoxel(v, slope, intercept, mode) ==
    Wrap16(CastFloatToInt16(v * Num(slope), Den(slope), mode)
           + CastFloatToInt16(Num(intercept), Den(intercept), mode))

MapGrid2(a, F(_)) ==
    AsTuple([r \in 1..Len(a) |-> AsTuple([c \in 1..Len(a[r]) |-> F(a[r][c])])])

\* lines 64-67: np.stack(...).astype(np.int16)
StackInt16(ss) ==
    AsTuple([k \in 1..Len(ss) |-> MapGrid2(ss[k].pixel_array, Wrap16)])

\* lines 78-86 for slice k (1-based) of the grid
RescaleSlice(img, ss, k, mode) ==
    LET F(v) == RescaleVoxel(v, ss[k].RescaleSlope, ss[k].RescaleIntercept, mode)
    IN  [img EXCEPT ![k] = MapGrid2(img[k], F)]

RECURSIVE RescaleFrom(_, _, _, _)
RescaleFrom(img, ss, k, mode) ==
    IF k > Len(ss) THEN img
    ELSE RescaleFrom(RescaleSlice(img, ss, k, mode), ss, k + 1, mode)

get_pixels_hu(ss, mode) == RescaleFrom(StackInt16(ss), ss, 1, mode)

\* the slices of a series in the model: at most MaxHUSlices slices of one
\* row of MaxHUCols stored values
MaxHUSlices == 2
MaxHUCols == 1

\* stored values: int16 and uint16 pixel data
StoredValues == {Int16Min, -3, 0, 1, 3, Int16Max, 40000}
Slopes == {<<1, 1>>, <<1, 2>>, <<2, 1>>}
Intercepts == {<<-1024, 1>>, <<0, 1>>, <<1, 2>>, <<1, 1>>}

HUSlice ==
    [pixel_array : {<<row>> : row \in [1..MaxHUCols -> StoredValues]},
     RescaleSlope : Slopes,
     RescaleIntercept : Intercepts]

InitHU ==
    /\ IdleScan /\ IdleRS /\ IdleLung /\ IdleImage
    /\ hu_pc = "stack"
    /\ slices \in UNION {[1..n -> HUSlice] : n \in 1..MaxHUSlices}
    /\ hu_image = <<>>
    /\ slice_number = 0
    /\ cast_mode \in CastModes

\* lines 64-67
HUStack ==
    /\ hu_pc = "stack"
    /\ hu_image' = StackInt16(slices)
    /\ slice_number' = 0
    /\ hu_pc' = "rescale"
    /\ UNCHANGED <<slices, cast_mode>>
    /\ UNCHANGED <<scanVars, rsVars, lungVars, imgVars>>

\* lines 75-86, one turn of the loop
HURescale ==
    /\ hu_pc = "rescale"
    /\ slice_number < Len(slices)
    /\ hu_image' = RescaleSlice(hu_image, slices, slice_number + 1, cast_mode)
    /\ slice_number' = slice_number + 1
    /\ UNCHANGED <<hu_pc, slices, cast_mode>>
    /\ UNCHANGED <<scanVars, rsVars, lungVars, imgVars>>

\* line 88
HUReturn ==
    /\ hu_pc = "rescale"
    /\ slice_number = Len(slices)
    /\ hu_pc' = "done"
    /\ UNCHANGED <<slices, hu_image, slice_number, cast_mode>>
    /\ UNCHANGED <<scanVars, rsVars, lungVars, imgVars>>

NextHU == HUStack \/ HURescale \/ HUReturn

SpecHU == InitHU /\ [][NextHU]_vars

\* the voxels of the stored grid
HUVoxels ==
    {<<k, r, c>> : k \in 1..Len(slices), r \in {1}, c \in 1..MaxHUCols}
Stored(p) == slices[p[1]].pixel_array[p[2]][p[3]]

\* stored * slope + intercept, exactly, as a fraction
ExactHU(p) ==
    LET s == slices[p[1]].RescaleSlope
        i == slices[p[1]].RescaleIntercept
    IN  <<Stored(p) * Num(s) * Den(i) + Num(i) * Den(s), Den(s) * Den(i)>>

(***************************************************************************)
(* C1: every voxel returned is stored * slope + intercept rounded once:    *)
(* whatever the rounding (down, up, to nearest, toward zero), it is less   *)
(* than one away from the exact value.  Stated for the voxels whose stored *)
(* and exact values fit int16, where no overflow is involved.              *)
(***************************************************************************)
FitsInt16(p) ==
    LET e == ExactHU(p)
    IN  /\ InInt16(Stored(p))
        /\ InInt16(Stored(p) * Num(slices[p[1]].RescaleSlope))
        /\ Int16Min * Den(e) <= Num(e)
        /\ Num(e) <= Int16Max * Den(e)

C1_RoundedOnceAtEnd ==
    hu_pc = "done" =>
        \A p \in HUVoxels :
            LET e == ExactHU(p)
            IN  FitsInt16(p) =>
                    Abs(hu_image[p[1]][p[2]][p[3]] * Den(e) - Num(e)) < Den(e)

(***************************************************************************)
(* C4: get_pixels_hu returns a grid only when every stored value and       *)
(* every rescaled value fits the 16-bit signed output type.                *)
(***************************************************************************)
C4_OverflowIsAnError ==
    hu_pc = "done" =>
        \A p \in HUVoxels :
            LET e == ExactHU(p)
            IN  /\ InInt16(Stored(p))
                /\ Int16Min * Den(e) <= Num(e)
                /\ Num(e) <= Int16Max * Den(e)

(***************************************************************************)
(* resample, resample_mask                                                 *)
(*                                                                         *)
(* A volume is a sequence of slices, each a sequence of rows:              *)
(* vol[z][y][x] is image[z-1, y-1, x-1].  Spacings are fractions; the      *)
(* ones drawn are dyadic, exact in float32 and float64.                    *)
(***************************************************************************)

\* np.round: n / d (d > 0) rounded to the nearest integer, a half to the
\* even neighbour
RoundHalfEven(n, d) ==
    LET q == n \div d
        r == n % d
    IN  IF 2 * r < d THEN q
        ELSE IF 2 * r > d THEN q + 1
        ELSE IF q % 2 = 0 THEN q ELSE q + 1

\* lines 103-107 (133-137): np.round(image.shape * (spacing / new_spacing))
NewShape(shape, spacing, target) ==
    [a \in Axes |->
        RoundHalfEven(shape[a] * Num(spacing[a]) * Den(target[a]),
                      Den(spacing[a]) * Num(target[a]))]

\* lines 110-113 (140-143): spacing / (new_shape / image.shape); a division
\* by zero gives inf, the fraction with denominator 0
NewSpacing(shape, spacing, new_shape) ==
    [a \in Axes |->
        <<Num(spacing[a]) * shape[a], Den(spacing[a]) * new_shape[a]>>]

(***************************************************************************)
(* scipy.ndimage.zoom(image, real_resize_factor, mode='nearest'): the      *)
(* order is the default, 3, so the output is a cubic spline through the    *)
(* input, sampled at out_index * (n - 1) / (m - 1); mode='nearest' only    *)
(* says how the input extends past its edges.  The tensor-product spline   *)
(* is computed one axis at a time, in float64, and the result is rounded   *)
(* once and clamped to the range of the output's integer type.  The model  *)
(* follows the float64 value in fixed point, FixScale units to 1 (products *)
(* stay below 2^31 for values up to 2000): for the values of the model,    *)
(* up to 1064 in size, the two agree to within TieWidth.  Where the value  *)
(* lies that close to k + 1/2, rounding error decides between k and k + 1, *)
(* so both are outcomes.                                                   *)
(***************************************************************************)
FixScale == 1000 * 100

\* floor(a * b / FixScale + 1/2), |a| <= 10^9, |b| <= 2 * FixScale
MulFix(a, b) ==
    LET a1 == a \div 1000
        a0 == a % 1000
        b1 == b \div 100
        b0 == b % 100
    IN  a1 * b1 + ((10 * a1 * b0 + a0 * b1 + ((a0 * b0 + 50000) \div 100)) \div 1000)

\* the pole of the cubic B-spline prefilter, sqrt(3) - 2
PoleFix == -26795
\* pole / (pole^2 - 1), the factor of the last coefficient
AntiCausalFix == 28868
\* the gain of the prefilter, (1 - pole) * (1 - 1 / pole)
SplineGain == 6
\* the edge samples added on each side before the prefilter
SplinePad == 12

Clamp(k, lo, hi) == IF k < lo THEN lo ELSE IF k > hi THEN hi ELSE k

\* np.pad(input, 12, mode='edge') along one axis
PadEdge(sig) ==
    AsTuple([k \in 1..(Len(sig) + 2 * SplinePad) |->
                sig[Clamp(k - SplinePad, 1, Len(sig))]])

\* c[0] = sum of pole^i * c[i]; the powers past the scale's precision, and
\* the mirrored terms in pole^(n-1), n >= 25, are 0 at this scale
RECURSIVE CausalInit(_, _, _)
CausalInit(g, i, zi) ==
    IF i > Len(g) \/ zi = 0 THEN 0
    ELSE MulFix(g[i], zi) + CausalInit(g, i + 1, MulFix(zi, PoleFix))

\* c[i] += pole * c[i-1]
RECURSIVE CausalFrom(_, _)
CausalFrom(g, acc) ==
    IF Len(acc) = Len(g) THEN acc
    ELSE CausalFrom(g, Append(acc, g[Len(acc) + 1] + MulFix(acc[Len(acc)], PoleFix)))

\* c[i] = pole * (c[i+1] - c[i]), from the end; acc holds c[n], c[n-1], ...
RECURSIVE AntiCausalFrom(_, _)
AntiCausalFrom(c, acc) ==
    IF Len(acc) = Len(c) THEN acc
    ELSE AntiCausalFrom(c,
            Append(acc, MulFix(acc[Len(acc)] - c[Len(c) - Len(acc)], PoleFix)))

Reverse(s) == AsTuple([k \in 1..Len(s) |-> s[Len(s) + 1 - k]])

\* spline_filter1d, order 3, on the padded line
SplineFilter(sig) ==
    LET g == AsTuple([k \in 1..Len(sig) |-> SplineGain * sig[k]])
        n == Len(g)
        c == CausalFrom(g, <<CausalInit(g, 1, FixScale)>>)
        last == MulFix(MulFix(c[n - 1], PoleFix) + c[n], AntiCausalFix)
    IN  Reverse(AntiCausalFrom(c, <<last>>))

\* the four cubic B-spline weights at fraction x of a cell
SplineWeights(x) ==
    LET y == x
        z == FixScale - x
        w1 == (3 * MulFix(MulFix(y, y), y - 2 * FixScale) + 4 * FixScale + 3) \div 6
        w2 == (3 * MulFix(MulFix(z, z), z - 2 * FixScale) + 4 * FixScale + 3) \div 6
        w0 == (MulFix(MulFix(z, z), z) + 3) \div 6
    IN  <<w0, w1, w2, FixScale - w0 - w1 - w2>>

\* one line of n samples resampled to m samples
Zoom1D(sig, m) ==
    LET n == Len(sig)
        c == SplineFilter(PadEdge(sig))
        Sample(j) ==
            LET t == j * (n - 1)
                fl == IF m = 1 THEN 0 ELSE t \div (m - 1)
                x == IF m = 1 THEN 0 ELSE ((t % (m - 1)) * FixScale) \div (m - 1)
                w == SplineWeights(x)
                base == fl + SplinePad - 1
            IN  MulFix(c[base + 1], w[1]) + MulFix(c[base + 2], w[2])
                + MulFix(c[base + 3], w[3]) + MulFix(c[base + 4], w[4])
    IN  AsTuple([j \in 1..m |-> Sample(j - 1)])

ZoomAxis3(vol, m) == MapLines3(vol, LAMBDA sig : Zoom1D(sig, m))
ZoomAxis2(vol, m) == MapLines2(vol, LAMBDA sig : Zoom1D(sig, m))
ZoomAxis1(vol, m) == MapLines1(vol, LAMBDA sig : Zoom1D(sig, m))

ToFix(v) == v * FixScale

\* an integer output: the nearest integer, a half away from zero
RoundFix(a) ==
    IF a >= 0 THEN (a + FixScale \div 2) \div FixScale
    ELSE -((-a + FixScale \div 2) \div FixScale)

FloorFix(a) == a \div FixScale

\* the distance within which the fixed-point value follows the float64 one
TieWidth == FixScale \div 100

\* the value is within TieWidth of some k + 1/2
IsTie(a) ==
    LET r == (a - FixScale \div 2) % FixScale
    IN  r <= TieWidth \/ r >= FixScale - TieWidth

\* the <<least, greatest>> value of the integer type of a grid: the int16
\* of get_pixels_hu, the unsigned 8 bits of a label map
UInt8Max == 255
Int16Range == <<Int16Min, Int16Max>>
UInt8Range == <<0, UInt8Max>>
Ranges == {UInt8Range, Int16Range}

\* the interpolated values of a zoom to a shape of positive dimensions,
\* before the conversion to the output type
ZoomFix(vol, new_shape) ==
    ZoomAxis1(ZoomAxis2(ZoomAxis3(MapGrid3(vol, ToFix), new_shape[3]),
                        new_shape[2]),
              new_shape[1])

\* the conversion of one value to the output type: rounded, then clamped
\* to the range of the type
Roundings(a, range) ==
    IF IsTie(a)
    THEN {Clamp(FloorFix(a), range[1], range[2]),
          Clamp(FloorFix(a) + 1, range[1], range[2])}
    ELSE {Clamp(RoundFix(a), range[1], range[2])}

\* the sequences whose k-th element is drawn from the k-th set
RECURSIVE SeqProduct(_)
SeqProduct(sets) ==
    IF sets = <<>> THEN {<<>>}
    ELSE {<<h>> \o t : h \in Head(sets), t \in SeqProduct(Tail(sets))}

\* the grids the conversion of the interpolated values can give
RoundingsOfLine(line, range) ==
    SeqProduct(AsTuple([k \in 1..Len(line) |-> Roundings(line[k], range)]))
RoundingsOfPlane(plane, range) ==
    SeqProduct(AsTuple([k \in 1..Len(plane) |-> RoundingsOfLine(plane[k], range)]))
RoundingsOfVolume(fix, range) ==
    SeqProduct(AsTuple([k \in 1..Len(fix) |-> RoundingsOfPlane(fix[k], range)]))

\* zoom to a shape of positive dimensions: the grids it can return
ZoomOutcomes(vol, new_shape, range) ==
    RoundingsOfVolume(ZoomFix(vol, new_shape), range)

\* a grid of no voxels
EmptyVolume(new_shape) == Build3(new_shape, LAMBDA p : 0)

\* lines 99-118 and 129-148: the outcomes of a resampling, each
\* Some(<<image, new_spacing>>), or None where the zoom raises.  On a new
\* shape with a dimension of 0 the zoom factor is 0 on that axis: the zoom
\* returns a grid of no voxels or raises
ResampleCore(image, spacing, target, range) ==
    LET new_shape == NewShape(Shape(image), spacing, target)
        new_spacing == NewSpacing(Shape(image), spacing, new_shape)
    IN  IF \A a \in Axes : new_shape[a] >= 1
        THEN {Some(<<g, new_spacing>>) :
                  g \in ZoomOutcomes(image, new_shape, range)}
        ELSE {Some(<<EmptyVolume(new_shape), new_spacing>>), None}

\* line 100: the spacing of a series
ScanSpacing(scan) ==
    <<scan[1].SliceThickness, scan[1].PixelSpacing[1], scan[1].PixelSpacing[2]>>

\* the image is a grid of get_pixels_hu, int16
resample(image, scan, new_spacing) ==
    ResampleCore(image, ScanSpacing(scan), new_spacing, Int16Range)

\* line 130: the diagonal of the space directions
MaskSpacing(space_directions) ==
    <<space_directions[1][1], space_directions[2][2], space_directions[3][3]>>

\* the image is a grid of the integer type with the given range
resample_mask(image, space_directions, new_spacing, range) ==
    ResampleCore(image, MaskSpacing(space_directions), new_spacing, range)

\* the volumes resampled in the model: every axis of 1 .. MaxDim voxels,
\* label values 0 and MaxLabel
MaxDim == 2
MaxLabel == 2
Labels == {0, MaxLabel}

VolumesOf(zs, ys, xs, vals) ==
    UNION {[1..z -> [1..y -> [1..x -> vals]]] : <<z, y, x>> \in zs \X ys \X xs}

\* slice spacing and in-plane spacing, and the target spacings
SpacingValues == {<<1, 4>>, <<1, 1>>, <<3, 2>>}
Spacings == {<<a, b, b>> : a \in SpacingValues, b \in SpacingValues}
Targets == {<<<<1, 1>>, <<1, 1>>, <<1, 1>>>>, <<<<2, 1>>, <<2, 1>>, <<2, 1>>>>}

InitResample ==
    /\ IdleScan /\ IdleHU /\ IdleLung /\ IdleImage
    /\ rs_pc = "spacing"
    /\ rs_image \in VolumesOf(1..MaxDim, 1..MaxDim, 1..MaxDim, Labels)
    /\ rs_spacing \in Spacings
    /\ rs_target \in Targets
    /\ rs_range \in Ranges
    /\ rs_new_shape = <<>>
    /\ rs_new_spacing = <<>>
    /\ rs_out = <<>>

\* lines 100-113 and 130-143
ResampleShape ==
    /\ rs_pc = "spacing"
    /\ rs_new_shape' = NewShape(Shape(rs_image), rs_spacing, rs_target)
    /\ rs_new_spacing' = NewSpacing(Shape(rs_image), rs_spacing, rs_new_shape')
    /\ rs_pc' = "zoom"
    /\ UNCHANGED <<rs_image, rs_spacing, rs_target, rs_out, rs_range>>
    /\ UNCHANGED <<scanVars, huVars, lungVars, imgVars>>

\* lines 116-118 and 146-148, a new shape of positive dimensions
ResampleZoom ==
    /\ rs_pc = "zoom"
    /\ \A a \in Axes : rs_new_shape[a] >= 1
    /\ rs_out' \in ZoomOutcomes(rs_image, rs_new_shape, rs_range)
    /\ rs_pc' = "done"
    /\ UNCHANGED <<rs_image, rs_spacing, rs_target, rs_new_shape,
                   rs_new_spacing, rs_range>>
    /\ UNCHANGED <<scanVars, huVars, lungVars, imgVars>>

\* lines 116-118 and 146-148, a zoom factor of 0: the spacing returned is
\* inf on that axis; the zoom returns a grid of no voxels or raises
ResampleZoomEmpty ==
    /\ rs_pc = "zoom"
    /\ \E a \in Axes : rs_new_shape[a] < 1
    /\ \/ rs_pc' = "done" /\ rs_out' = EmptyVolume(rs_new_shape)
       \/ rs_pc' = "error" /\ rs_out' = rs_out
    /\ UNCHANGED <<rs_image, rs_spacing, rs_target, rs_new_shape,
                   rs_new_spacing, rs_range>>
    /\ UNCHANGED <<scanVars, huVars, lungVars, imgVars>>

NextResample == ResampleShape \/ ResampleZoom \/ ResampleZoomEmpty

SpecResample == InitResample /\ [][NextResample]_vars

(***************************************************************************)
(* C2: every voxel of a resampled mask has the value of some voxel of the  *)
(* source mask.                                                            *)
(***************************************************************************)
C2_MaskValuesFromSource ==
    rs_pc = "done" => Values3(rs_out) \subseteq Values3(rs_image)

(***************************************************************************)
(* C3: resample returns, on every axis, a positive finite achieved spacing *)
(* with |new_shape * achieved - old_shape * original| <= achieved.         *)
(***************************************************************************)
C3_ExtentPreserved ==
    rs_pc \in {"done", "error"} =>
        /\ rs_pc = "done"
        /\ \A a \in Axes :
              LET sp == rs_new_spacing[a]
                  o == rs_spacing[a]
              IN  /\ Den(sp) > 0 /\ Num(sp) > 0
                  /\ Abs(rs_new_shape[a] * Num(sp) * Den(o)
                         - Shape(rs_image)[a] * Num(o) * Den(sp))
                        <= Num(sp) * Den(o)


(***************************************************************************)
(* segment_lung_mask   (src/preprocess.py lines 151-232)                   *)
(*                                                                         *)
(* A voxel position is <<z, y, x>>.  Boolean arrays are volumes of 0 and 1 *)
(* while the code does integer arithmetic on them (lines 185, 220, 221).   *)
(***************************************************************************)
\* line 182: image > -320
AirThreshold == -320

Threshold(img) == MapGrid3(img, LAMBDA v : IF v > AirThreshold THEN 1 ELSE 0)

\* scipy.ndimage binary morphology with a structure of ones of the given
\* size on every axis: the structure's centre is size \div 2, moved one
\* back for an even size in the dilation (the reflected structure); outside
\* the array the input counts as 0 (border_value = 0).  A box structure
\* acts on one axis after the other.
DilateLine(line, size) ==
    LET n  == Len(line)
        c  == IF size % 2 = 0 THEN size \div 2 - 1 ELSE size \div 2
    IN  AsTuple([x \in 1..n |->
            IF \E d \in (0 - c)..(size - 1 - c) :
                   x + d >= 1 /\ x + d <= n /\ line[x + d] = 1
            THEN 1 ELSE 0])

ErodeLine(line, size) ==
    LET n  == Len(line)
        c  == size \div 2
    IN  AsTuple([x \in 1..n |->
            IF \A d \in (0 - c)..(size - 1 - c) :
                   x + d >= 1 /\ x + d <= n /\ line[x + d] = 1
            THEN 1 ELSE 0])

binary_dilation(vol, size) ==
    MapLines1(MapLines2(MapLines3(vol,
        LAMBDA l : DilateLine(l, size)),
        LAMBDA l : DilateLine(l, size)),
        LAMBDA l : DilateLine(l, size))

binary_erosion(vol, size) ==
    MapLines1(MapLines2(MapLines3(vol,
        LAMBDA l : ErodeLine(l, size)),
        LAMBDA l : ErodeLine(l, size)),
        LAMBDA l : ErodeLine(l, size))

binary_closing(vol, size) == binary_erosion(binary_dilation(vol, size), size)

\* line 185: structure=np.ones([5,5,5]); line 230: np.ones([10,10,10])
ClosingSize == 5
DilationSize == 10

\* skimage.measure.label: two voxels are neighbours when at most
\* `connectivity` of their coordinates differ, each by one
Offsets(connectivity) ==
    {d \in {-1, 0, 1} \X {-1, 0, 1} \X {-1, 0, 1} :
        /\ d # <<0, 0, 0>>
        /\ Abs(d[1]) + Abs(d[2]) + Abs(d[3]) <= connectivity}

Neighbours(p, shape, connectivity) ==
    {q \in {<<p[1] + d[1], p[2] + d[2], p[3] + d[3]>> :
                d \in Offsets(connectivity)} : InGrid(q, shape)}

\* the voxels reached from `seen` through neighbours of value v
RECURSIVE Grow(_, _, _, _, _)
Grow(vol, connectivity, v, frontier, seen) ==
    LET shape == Shape(vol)
        next  == {q \in UNION {Neighbours(p, shape, connectivity) :
                                   p \in frontier} :
                      q \notin seen /\ At(vol, q) = v}
    IN  IF next = {} THEN seen
        ELSE Grow(vol, connectivity, v, next, seen \cup next)

Component(vol, connectivity, p) ==
    Grow(vol, connectivity, At(vol, p), {p}, {p})

\* the first voxel of a set in raster order (z, then y, then x)
MinOf(S) == CHOOSE m \in S : \A n \in S : m <= n

FirstVoxel(S) ==
    LET z == MinOf({p[1] : p \in S})
        y == MinOf({p[2] : p \in {q \in S : q[1] = z}})
        x == MinOf({p[3] : p \in {q \in S : q[1] = z /\ q[2] = y}})
    IN  <<z, y, x>>

\* the components of the voxels in `rest`, in raster order of their first
\* voxel
RECURSIVE Components(_, _, _)
Components(vol, connectivity, rest) ==
    IF rest = {} THEN <<>>
    ELSE LET comp == Component(vol, connectivity, FirstVoxel(rest))
         IN  <<comp>> \o Components(vol, connectivity, rest \ comp)

\* measure.label(vol, background=..., connectivity=...): background voxels
\* get 0, every component of equal values gets the next label from 1
label(vol, background, connectivity) ==
    LET shape == Shape(vol)
        comps == Components(vol, connectivity,
                     {p \in Voxels(shape) : At(vol, p) # background})
    IN  Build3(shape, LAMBDA p :
            IF At(vol, p) = background THEN 0
            ELSE CHOOSE k \in 1..Len(comps) : p \in comps[k])

\* a 2-D slice is labelled as a volume of one slice
label2(slice, background, connectivity) ==
    label(<<slice>>, background, connectivity)[1]

\* lines 151-170: np.unique sorts the values; argmax takes the first maximum
largest_label_volume(im, bg) ==
    LET shape  == Shape(im)
        vals   == Values3(im) \ {bg}
        counts == [v \in vals |->
                      Cardinality({p \in Voxels(shape) : At(im, p) = v})] @@ <<>>
    IN  IF vals = {} THEN None
        ELSE Some(CHOOSE v \in vals : \A w \in vals :
                      \/ counts[v] > counts[w]
                      \/ counts[v] = counts[w] /\ v <= w)

\* line 185: binary_closing(image > -320, ones 5x5x5) + 1
ClosedPlusOne(img) ==
    MapGrid3(binary_closing(Threshold(img), ClosingSize), LAMBDA v : v + 1)

\* line 188: label(binary_image, connectivity=1); nothing is 0 here
LabelVolume(bin) == label(bin, 0, 1)

\* lines 194-197: binary_image[labels == labels[0,0,0]] = 2
FillBackground(bin, lab) ==
    LET shape == Shape(bin)
        bgl   == lab[1][1][1]
    IN  Build3(shape, LAMBDA p : IF At(lab, p) = bgl THEN 2 ELSE At(bin, p))

\* lines 203-210: axial_slice - 1 and its labelling (default connectivity)
SliceMinusOne(slice) ==
    AsTuple([y \in 1..Len(slice) |->
        AsTuple([x \in 1..Len(slice[y]) |-> slice[y][x] - 1])])

SliceLabeling(slice) == label2(SliceMinusOne(slice), 0, 2)

\* a fill pass that leaves every slice as it is
ReassignNothing(slice, lab, lmax) == slice

\* lines 216-217: the slice after binary_image[i][labeling != l_max] = 1
Reassign(slice, lab, lmax) ==
    IF lmax = None THEN slice
    ELSE AsTuple([y \in 1..Len(slice) |->
             AsTuple([x \in 1..Len(slice[y]) |->
                 IF lab[y][x] # Val(lmax) THEN 1 ELSE slice[y][x]])])

\* lines 203-217 for one slice
FillSlice(slice) ==
    LET lab == SliceLabeling(slice)
    IN  Reassign(slice, lab, largest_label_volume(<<lab>>, 0))

\* lines 201-217 for the slices from i on
RECURSIVE FillFrom(_, _)
FillFrom(bin, i) ==
    IF i > Len(bin) THEN bin
    ELSE FillFrom([bin EXCEPT ![i] = FillSlice(bin[i])], i + 1)

\* the subtraction of line 220 without the inversion of line 221
BinarizeNoInversion(v) == v - 1

\* lines 220-221: binary_image -= 1; binary_image = 1 - binary_image
Binarize(v) == 1 - (v - 1)

\* line 224: label(binary_image, background=0), default connectivity
LabelCandidates(bin) == label(bin, 0, 3)

\* a filter that keeps every candidate component
FilterNothing(bin, lab, lmax) == bin

\* lines 226-227: binary_image[labels != l_max] = 0
FilterLargest(bin, lab, lmax) ==
    IF lmax = None THEN bin
    ELSE Build3(Shape(bin), LAMBDA p :
             IF At(lab, p) # Val(lmax) THEN 0 ELSE At(bin, p))

\* lines 224-227: keep the largest component of the candidate voxels
KeepLargest(bin) ==
    LET lab == LabelCandidates(bin)
    IN  FilterLargest(bin, lab, largest_label_volume(lab, 0))

\* lines 173-232; the returned mask is a volume of booleans
segment_lung_mask(img, fill) ==
    LET closed == ClosedPlusOne(img)
        bg     == FillBackground(closed, LabelVolume(closed))
        filled == IF fill THEN FillFrom(bg, 1) ELSE bg
        cand   == KeepLargest(MapGrid3(filled, Binarize))
    IN  MapGrid3(binary_dilation(cand, DilationSize), LAMBDA v : v = 1)



\* Inputs.  A phantom is a block of tissue with boxes of air in it, a box
\* being <<z1, z2, y1, y2, x1, x2>>, and single voxels of tissue (nodules)
\* inside the air.  Voxels alternate between an intensity next to the
\* threshold and one far from it.
MaxPad == 0

AirHU(p) == IF (p[1] + p[2] + p[3]) % 2 = 0 THEN AirThreshold ELSE -1000
TissueHU(p) == IF (p[1] + p[2] + p[3]) % 2 = 0 THEN AirThreshold + 1 ELSE 40

InBox(p, b) ==
    /\ b[1] <= p[1] /\ p[1] <= b[2]
    /\ b[3] <= p[2] /\ p[2] <= b[4]
    /\ b[5] <= p[3] /\ p[3] <= b[6]

Phantom(shape, boxes, nodules) ==
    Build3(shape, LAMBDA p :
        IF (\E b \in boxes : InBox(p, b)) /\ p \notin nodules
        THEN AirHU(p) ELSE TissueHU(p))

\* a phantom wrapped in `pad` more layers of tissue
Padded(shape, boxes, nodules, pad) ==
    Phantom(<<shape[1] + 2 * pad, shape[2] + 2 * pad, shape[3] + 2 * pad>>,
            {[k \in 1..6 |-> b[k] + pad] : b \in boxes},
            {[k \in 1..3 |-> n[k] + pad] : n \in nodules})

Phantoms ==
    {Padded(c[1], c[2], c[3], pad) : pad \in 0..MaxPad, c \in {
        \* nothing but tissue; nothing but air
        <<<<1, 1, 1>>, {}, {}>>,
        <<<<1, 1, 1>>, {<<1, 1, 1, 1, 1, 1>>}, {}>>,
        <<<<5, 5, 5>>, {}, {}>>,
        <<<<5, 5, 5>>, {<<1, 5, 1, 5, 1, 5>>}, {}>>,
        <<<<11, 11, 11>>, {}, {}>>,
        <<<<11, 11, 11>>, {<<1, 11, 1, 11, 1, 11>>}, {}>>,
        \* a pocket the closing keeps, one it closes, one open to the outside
        <<<<11, 11, 11>>, {<<4, 8, 4, 8, 4, 8>>}, {}>>,
        <<<<11, 11, 11>>, {<<5, 7, 5, 7, 5, 7>>}, {}>>,
        <<<<11, 11, 11>>, {<<4, 8, 4, 8, 1, 8>>}, {}>>,
        \* a small and a large pocket, one and five voxels of tissue apart
        <<<<11, 11, 18>>, {<<4, 8, 4, 8, 4, 8>>, <<4, 8, 4, 8, 10, 15>>}, {}>>,
        <<<<11, 11, 22>>, {<<4, 8, 4, 8, 4, 8>>, <<4, 8, 4, 8, 14, 19>>}, {}>>,
        \* two pockets that touch along an edge only
        <<<<11, 16, 16>>, {<<4, 8, 4, 8, 4, 8>>, <<4, 8, 9, 13, 9, 13>>}, {}>>,
        \* a pocket with a nodule in its middle
        <<<<11, 17, 17>>, {<<4, 8, 4, 14, 4, 14>>}, {<<6, 9, 9>>}>>}}

InitLung ==
    /\ IdleScan /\ IdleHU /\ IdleRS /\ IdleImage
    /\ lung_pc = "threshold"
    /\ lung_image \in Phantoms
    /\ fill_lung_structures \in BOOLEAN
    /\ binary_image = <<>> /\ labels = <<>> /\ background_label = 0
    /\ slice_i = 0 /\ axial_slice = <<>> /\ labeling = <<>> /\ l_max = None
    /\ dilated = <<>> /\ reassigned = {}

\* line 182
LungThreshold ==
    /\ lung_pc = "threshold"
    /\ binary_image' = Threshold(lung_image)
    /\ lung_pc' = "closing"
    /\ UNCHANGED <<lung_image, fill_lung_structures, labels, background_label,
                   slice_i, axial_slice, labeling, l_max, dilated, reassigned>>
    /\ UNCHANGED <<scanVars, huVars, rsVars, imgVars>>

\* line 185
LungClosing ==
    /\ lung_pc = "closing"
    /\ binary_image' = MapGrid3(binary_closing(binary_image, ClosingSize),
                                LAMBDA v : v + 1)
    /\ lung_pc' = "label"
    /\ UNCHANGED <<lung_image, fill_lung_structures, labels, background_label,
                   slice_i, axial_slice, labeling, l_max, dilated, reassigned>>
    /\ UNCHANGED <<scanVars, huVars, rsVars, imgVars>>

\* lines 188-194
LungLabel ==
    /\ lung_pc = "label"
    /\ labels' = LabelVolume(binary_image)
    /\ background_label' = labels'[1][1][1]
    /\ lung_pc' = "background"
    /\ UNCHANGED <<lung_image, fill_lung_structures, binary_image, slice_i,
                   axial_slice, labeling, l_max, dilated, reassigned>>
    /\ UNCHANGED <<scanVars, huVars, rsVars, imgVars>>

\* lines 197-201
LungBackground ==
    /\ lung_pc = "background"
    /\ binary_image' = FillBackground(binary_image, labels)
    /\ slice_i' = 0
    /\ lung_pc' = IF fill_lung_structures THEN "fill" ELSE "binarize"
    /\ UNCHANGED <<lung_image, fill_lung_structures, labels, background_label,
                   axial_slice, labeling, l_max, dilated, reassigned>>
    /\ UNCHANGED <<scanVars, huVars, rsVars, imgVars>>

\* lines 204-217, one turn of the loop: slice_i slices are done
LungFillSlice ==
    /\ lung_pc = "fill"
    /\ slice_i < Len(binary_image)
    /\ slice_i' = slice_i + 1
    /\ axial_slice' = SliceMinusOne(binary_image[slice_i'])
    /\ labeling' = label2(axial_slice', 0, 2)
    /\ l_max' = largest_label_volume(<<labeling'>>, 0)
    /\ binary_image' =
          [binary_image EXCEPT
              ![slice_i'] = Reassign(binary_image[slice_i'], labeling', l_max')]
    /\ reassigned' = reassigned \cup
          {<<slice_i', q[1], q[2]>> : q \in
              {r \in (1..Len(labeling')) \X (1..Len(labeling'[1])) :
                   l_max' # None /\ labeling'[r[1]][r[2]] # Val(l_max')}}
    /\ lung_pc' = IF slice_i' = Len(binary_image) THEN "binarize" ELSE "fill"
    /\ UNCHANGED <<lung_image, fill_lung_structures, labels, background_label,
                   dilated>>
    /\ UNCHANGED <<scanVars, huVars, rsVars, imgVars>>

\* lines 220-221
LungBinarize ==
    /\ lung_pc = "binarize"
    /\ binary_image' = MapGrid3(binary_image, Binarize)
    /\ lung_pc' = "candidates"
    /\ UNCHANGED <<lung_image, fill_lung_structures, labels, background_label,
                   slice_i, axial_slice, labeling, l_max, dilated, reassigned>>
    /\ UNCHANGED <<scanVars, huVars, rsVars, imgVars>>

\* lines 224-225
LungLabelCandidates ==
    /\ lung_pc = "candidates"
    /\ labels' = LabelCandidates(binary_image)
    /\ l_max' = largest_label_volume(labels', 0)
    /\ lung_pc' = "filter"
    /\ UNCHANGED <<lung_image, fill_lung_structures, binary_image,
                   background_label, slice_i, axial_slice, labeling, dilated,
                   reassigned>>
    /\ UNCHANGED <<scanVars, huVars, rsVars, imgVars>>

\* lines 226-227
LungFilter ==
    /\ lung_pc = "filter"
    /\ binary_image' = FilterLargest(binary_image, labels, l_max)
    /\ lung_pc' = "dilate"
    /\ UNCHANGED <<lung_image, fill_lung_structures, labels, background_label,
                   slice_i, axial_slice, labeling, l_max, dilated, reassigned>>
    /\ UNCHANGED <<scanVars, huVars, rsVars, imgVars>>

\* lines 230-232
LungDilate ==
    /\ lung_pc = "dilate"
    /\ dilated' = MapGrid3(binary_dilation(binary_image, DilationSize),
                           LAMBDA v : v = 1)
    /\ lung_pc' = "done"
    /\ UNCHANGED <<lung_image, fill_lung_structures, binary_image, labels,
                   background_label, slice_i, axial_slice, labeling, l_max,
                   reassigned>>
    /\ UNCHANGED <<scanVars, huVars, rsVars, imgVars>>

NextLung ==
    \/ LungThreshold
    \/ LungClosing
    \/ LungLabel
    \/ LungBackground
    \/ LungFillSlice
    \/ LungBinarize
    \/ LungLabelCandidates
    \/ LungFilter
    \/ LungDilate

SpecLung == InitLung /\ [][NextLung]_vars

\* the labels of a labelling, and the voxels of one label
LabelSet(lab) == Values3(lab) \ {0}
Members(lab, k) == {p \in Voxels(Shape(lab)) : At(lab, p) = k}

\* line 182: a voxel is air unless its intensity is above the threshold
IsAir(p) == ~ (At(lung_image, p) > AirThreshold)

NoAir == \A p \in Voxels(Shape(lung_image)) : ~ IsAir(p)

AllFalse(mask) == \A p \in Voxels(Shape(mask)) : At(mask, p) = FALSE

(***************************************************************************)
(* C5: when the input has no air voxel, or the labelling of line 224 finds *)
(* no candidate component, the pipeline reaches its return with a mask of  *)
(* the shape of the input that is false everywhere, with and without the   *)
(* fill pass.                                                              *)
(***************************************************************************)
C5_EmptyMaskWithoutCandidates ==
    (lung_pc = "done" /\ (NoAir \/ l_max = None)) =>
        /\ Shape(dilated) = Shape(lung_image)
        /\ AllFalse(dilated)

C5_Witness ==
    /\ lung_pc = "done"
    /\ NoAir
    /\ l_max = None
    /\ fill_lung_structures
    /\ Shape(lung_image)[1] >= ClosingSize
    /\ AllFalse(dilated)

(***************************************************************************)
(* C6: the candidate components of line 224 other than the largest that    *)
(* consist of air voxels are the pockets.                                  *)
(***************************************************************************)
Pockets ==
    {k \in LabelSet(labels) :
        /\ Some(k) # l_max
        /\ \A p \in Members(labels, k) : IsAir(p)}

\* the voxels whose value the dilation of line 230 reads for voxel p
DilationReach(p) ==
    {q \in ((p[1] - 4)..(p[1] + 5)) \X ((p[2] - 4)..(p[2] + 5))
              \X ((p[3] - 4)..(p[3] + 5)) : InGrid(q, Shape(labels))}

\* C6 as stated: no voxel of a pocket is true in the returned mask
C6_PocketAbsentFromMask ==
    lung_pc = "done" =>
        \A k \in Pockets : \A p \in Members(labels, k) : ~ At(dilated, p)

\* C6 amended: no voxel of a pocket is a candidate after the filter of lines
\* 226-227, and a voxel of a pocket is true in the returned mask only where
\* the dilation of the largest component reaches it
C6_PocketFilteredOut ==
    lung_pc \in {"dilate", "done"} =>
        \A k \in Pockets : \A p \in Members(labels, k) :
            /\ At(binary_image, p) = 0
            /\ (lung_pc = "done" /\ At(dilated, p)) =>
                   \E q \in DilationReach(p) : Some(At(labels, q)) = l_max

\* a pocket next to the largest component: part of it is in the mask, part
\* of it is not
C6_Witness ==
    /\ lung_pc = "done"
    /\ \E k \in Pockets : \E p, q \in Members(labels, k) :
           At(dilated, p) /\ ~ At(dilated, q)

(***************************************************************************)
(* C9: the fill pass sets every voxel outside the largest component of its *)
(* slice to 1, and leaves a slice without a component as it is.            *)
(***************************************************************************)
\* the slice the last turn of the loop worked on, before that turn
SliceBefore ==
    AsTuple([y \in 1..Len(axial_slice) |->
        AsTuple([x \in 1..Len(axial_slice[y]) |-> axial_slice[y][x] + 1])])

FillSetsToOne ==
    /\ (lung_pc \in {"fill", "binarize"} /\ fill_lung_structures) =>
          \A p \in reassigned : At(binary_image, p) = 1
    /\ (lung_pc \in {"fill", "binarize"} /\ slice_i >= 1 /\ l_max = None) =>
          binary_image[slice_i] = SliceBefore

\* C9 as stated: after the binarize step those voxels are not candidates
C9_ReassignedAreTissue ==
    /\ FillSetsToOne
    /\ lung_pc = "candidates" =>
          \A p \in reassigned : At(binary_image, p) # 1

\* C9 amended: after the binarize step those voxels are candidates
C9_ReassignedAreCandidates ==
    /\ FillSetsToOne
    /\ lung_pc = "candidates" =>
          \A p \in reassigned : At(binary_image, p) = 1

\* a tissue voxel inside a pocket has become a candidate lung voxel
C9_Witness ==
    /\ lung_pc = "candidates"
    /\ \E p \in reassigned : ~ IsAir(p) /\ At(binary_image, p) = 1

(***************************************************************************)
(* C10: in each of the three labellings the voxels of a label are joined   *)
(* by face-connected paths of equal source value (the label 0 of the       *)
(* background aside).                                                      *)
(***************************************************************************)
FaceConnected(src, lab) ==
    \A k \in LabelSet(lab) :
        LET S == Members(lab, k)
        IN  S \subseteq Component(src, 1, FirstVoxel(S))

C10_LabelsAreFaceConnected ==
    /\ lung_pc = "background" => FaceConnected(binary_image, labels)
    /\ (lung_pc \in {"fill", "binarize"} /\ slice_i >= 1) =>
          FaceConnected(<<axial_slice>>, <<labeling>>)
    /\ lung_pc = "filter" => FaceConnected(binary_image, labels)

(***************************************************************************)
(* load_image   (src/preprocess.py lines 261-289)                          *)
(*                                                                         *)
(* A patient is the content of the folder: the CT series, the PET series   *)
(* and the tumour segmentation <<volume, space directions, range of the    *)
(* volume's integer type>>, the volume indexed [x][y][z] as the file       *)
(* stores it.                                                              *)
(***************************************************************************)
\* lines 37-46 as a whole: <<CT thickness, PET thickness>>, or None when the
\* last handler raises
Thicknesses(ct, pet) ==
    IF PositionDeltaOk(ct) /\ PositionDeltaOk(pet)
    THEN Some(<<PositionDelta(ct), PositionDelta(pet)>>)
    ELSE IF LocationDeltaOk(pet)
    THEN Some(<<LocationDelta(pet), LocationDelta(pet)>>)
    ELSE IF TagOk(ct) /\ TagOk(pet)
    THEN Some(<<TagValue(ct), TagValue(pet)>>)
    ELSE None

\* lines 28-55: the sorted series with their thickness (as a fraction) and
\* the segmentation, or None when load_scan raises
load_scan(p) ==
    LET ct  == SortByPosition(p.ct)
        pet == SortByPosition(p.pet)
        t   == Thicknesses(ct, pet)
    IN  IF t = None THEN None
        ELSE Some(<<SetThickness(ct, <<Val(t)[1], 1>>),
                    SetThickness(pet, <<Val(t)[2], 1>>),
                    p.seg>>)

\* line 283: np.transpose(vol, [2, 1, 0])
Transpose(vol) ==
    LET shape == Shape(vol)
    IN  Build3(<<shape[3], shape[2], shape[1]>>,
               LAMBDA p : vol[p[3]][p[2]][p[1]])

\* lines 276-280: the spacing everything is resampled to
Isotropic == <<<<1, 1>>, <<1, 1>>, <<1, 1>>>>

MaxThickness == 2
MaxPixels == 2
PixelSpacings == {<<1, 4>>, <<1, 1>>, <<2, 1>>}

\* a slice of n x n pixels of stored value v at position pos
ImageSlice(pos, n, sp, v) ==
    [ImagePositionPatient |-> pos, SliceLocation |-> None,
     Tag0018_0088 |-> None, SliceThickness |-> None,
     pixel_array |-> [r \in 1..n |-> [c \in 1..n |-> v]],
     RescaleSlope |-> <<1, 1>>, RescaleIntercept |-> <<-1024, 1>>,
     PixelSpacing |-> <<sp, sp>>]

\* two slices, in the order the folder lists them
ImageSeries(dz, n, sp) ==
    <<ImageSlice(dz, n, sp, 24), ImageSlice(0, n, sp, 1064)>>

SpaceDirections(sp) ==
    [r \in 1..3 |-> [c \in 1..3 |-> IF r = c THEN sp ELSE <<0, 1>>]]

Patients ==
    {[ct  |-> ImageSeries(dzc, MaxPixels, spc),
      pet |-> ImageSeries(dzp, n, spp),
      seg |-> <<[x \in 1..2 |-> [y \in 1..2 |-> [z \in 1..2 |-> x - 1]]],
                SpaceDirections(spm), range>>] :
        dzc \in 1..MaxThickness, spc \in PixelSpacings,
        dzp \in 1..MaxThickness, n \in 1..MaxPixels,
        spp \in PixelSpacings, spm \in PixelSpacings, range \in Ranges}

InitImage ==
    /\ IdleScan /\ IdleHU /\ IdleRS /\ IdleLung
    /\ img_pc = "load_scan"
    /\ patient \in Patients
    /\ ct_data = <<>> /\ pet_data = <<>> /\ tumor_mask = <<>>
    /\ ct_pixel = <<>> /\ pet_pixel = <<>>
    /\ tumor_resampled_mask = <<>> /\ ct_resampled_image = <<>>
    /\ pet_resampled_image = <<>> /\ img_spacing = <<>> /\ lung_mask = <<>>

\* line 270
ImageLoadScan ==
    /\ img_pc = "load_scan"
    /\ LET r == load_scan(patient)
       IN  IF r = None
           THEN /\ img_pc' = "error"
                /\ UNCHANGED <<ct_data, pet_data, tumor_mask>>
           ELSE /\ ct_data' = Val(r)[1]
                /\ pet_data' = Val(r)[2]
                /\ tumor_mask' = Val(r)[3]
                /\ img_pc' = "hu_ct"
    /\ UNCHANGED <<patient, ct_pixel, pet_pixel, tumor_resampled_mask,
                   ct_resampled_image, pet_resampled_image, img_spacing,
                   lung_mask>>
    /\ UNCHANGED <<scanVars, huVars, rsVars, lungVars>>

\* line 271
ImageHuCt ==
    /\ img_pc = "hu_ct"
    /\ \E mode \in CastModes : ct_pixel' = get_pixels_hu(ct_data, mode)
    /\ img_pc' = "hu_pet"
    /\ UNCHANGED <<patient, ct_data, pet_data, tumor_mask, pet_pixel,
                   tumor_resampled_mask, ct_resampled_image,
                   pet_resampled_image, img_spacing, lung_mask>>
    /\ UNCHANGED <<scanVars, huVars, rsVars, lungVars>>

\* line 272
ImageHuPet ==
    /\ img_pc = "hu_pet"
    /\ \E mode \in CastModes : pet_pixel' = get_pixels_hu(pet_data, mode)
    /\ img_pc' = "resample_mask"
    /\ UNCHANGED <<patient, ct_data, pet_data, tumor_mask, ct_pixel,
                   tumor_resampled_mask, ct_resampled_image,
                   pet_resampled_image, img_spacing, lung_mask>>
    /\ UNCHANGED <<scanVars, huVars, rsVars, lungVars>>

\* line 276
ImageResampleMask ==
    /\ img_pc = "resample_mask"
    /\ \E r \in resample_mask(tumor_mask[1], tumor_mask[2], Isotropic,
                               tumor_mask[3]) :
          IF r = None
          THEN /\ img_pc' = "error"
               /\ UNCHANGED <<tumor_resampled_mask, img_spacing>>
          ELSE /\ tumor_resampled_mask' = Val(r)[1]
               /\ img_spacing' = Val(r)[2]
               /\ img_pc' = "resample_ct"
    /\ UNCHANGED <<patient, ct_data, pet_data, tumor_mask, ct_pixel, pet_pixel,
                   ct_resampled_image, pet_resampled_image, lung_mask>>
    /\ UNCHANGED <<scanVars, huVars, rsVars, lungVars>>

\* line 278
ImageResampleCt ==
    /\ img_pc = "resample_ct"
    /\ \E r \in resample(ct_pixel, ct_data, Isotropic) :
          IF r = None
          THEN /\ img_pc' = "error"
               /\ UNCHANGED <<ct_resampled_image, img_spacing>>
          ELSE /\ ct_resampled_image' = Val(r)[1]
               /\ img_spacing' = Val(r)[2]
               /\ img_pc' = "resample_pet"
    /\ UNCHANGED <<patient, ct_data, pet_data, tumor_mask, ct_pixel, pet_pixel,
                   tumor_resampled_mask, pet_resampled_image, lung_mask>>
    /\ UNCHANGED <<scanVars, huVars, rsVars, lungVars>>

\* line 280
ImageResamplePet ==
    /\ img_pc = "resample_pet"
    /\ \E r \in resample(pet_pixel, pet_data, Isotropic) :
          IF r = None
          THEN /\ img_pc' = "error"
               /\ UNCHANGED <<pet_resampled_image, img_spacing>>
          ELSE /\ pet_resampled_image' = Val(r)[1]
               /\ img_spacing' = Val(r)[2]
               /\ img_pc' = "transpose"
    /\ UNCHANGED <<patient, ct_data, pet_data, tumor_mask, ct_pixel, pet_pixel,
                   tumor_resampled_mask, ct_resampled_image, lung_mask>>
    /\ UNCHANGED <<scanVars, huVars, rsVars, lungVars>>

\* line 283
ImageTranspose ==
    /\ img_pc = "transpose"
    /\ tumor_resampled_mask' = Transpose(tumor_resampled_mask)
    /\ img_pc' = "lung_mask"
    /\ UNCHANGED <<patient, ct_data, pet_data, tumor_mask, ct_pixel, pet_pixel,
                   ct_resampled_image, pet_resampled_image, img_spacing,
                   lung_mask>>
    /\ UNCHANGED <<scanVars, huVars, rsVars, lungVars>>

\* lines 287-289; on a CT grid of no voxels segment_lung_mask raises, at
\* the latest at labels[0, 0, 0] (line 194)
ImageLungMask ==
    /\ img_pc = "lung_mask"
    /\ IF Voxels(Shape(ct_resampled_image)) = {}
       THEN /\ img_pc' = "error"
            /\ UNCHANGED lung_mask
       ELSE /\ lung_mask' = segment_lung_mask(ct_resampled_image, TRUE)
            /\ img_pc' = "done"
    /\ UNCHANGED <<patient, ct_data, pet_data, tumor_mask, ct_pixel, pet_pixel,
                   tumor_resampled_mask, ct_resampled_image,
                   pet_resampled_image, img_spacing>>
    /\ UNCHANGED <<scanVars, huVars, rsVars, lungVars>>

NextImage ==
    \/ ImageLoadScan
    \/ ImageHuCt
    \/ ImageHuPet
    \/ ImageResampleMask
    \/ ImageResampleCt
    \/ ImageResamplePet
    \/ ImageTranspose
    \/ ImageLungMask

SpecImage == InitImage /\ [][NextImage]_vars

(***************************************************************************)
(* C7: the four grids load_image returns have one shape.                   *)
(***************************************************************************)
C7_FourGridsOfOneShape ==
    img_pc = "done" =>
        /\ Shape(pet_resampled_image) = Shape(ct_resampled_image)
        /\ Shape(tumor_resampled_mask) = Shape(ct_resampled_image)
        /\ Shape(lung_mask) = Shape(ct_resampled_image)

(***************************************************************************)
(* The program as a whole: any one of its operations, from its start.      *)
(***************************************************************************)
Init == InitScan \/ InitHU \/ InitResample \/ InitLung \/ InitImage

Next == NextScan \/ NextHU \/ NextResample \/ NextLung \/ NextImage

Spec == Init /\ [][Next]_vars

============================================================================
